---------------------------- MODULE Spec2Model ----------------------------
(***************************************************************************)
(* A model of the PDF hyperlink / UTM rewriting engine of src/main.py:     *)
(* format_pattern_to_regex, normalize, extract_last_path_segment, the page *)
(* loop of process_pdf_logic and the PDF branch of the /process and        *)
(* /preview handlers.                                                      *)
(*                                                                         *)
(* Text is a sequence of characters.  A character is a one-character       *)
(* string; the five typographic code points the code treats specially are  *)
(* written by their code point ("U+2011"), and a fragment the code never   *)
(* looks into (a scheme and host, a literal of an f-string such as         *)
(* "utm_source=", a percent-escape produced by quote) is one element.      *)
(***************************************************************************)
EXTENDS Integers, Sequences, FiniteSets, TLC

(***************************************************************************)
(* Bounds of the model.                                                    *)
(***************************************************************************)
MaxFmtLen == 3
MaxStrLen == 3
MaxUrlLen == 3
MaxPages == 2
MaxWords == 2
MaxSpans == 2
MaxLinks == 2
MaxRuns == 2

(***************************************************************************)
(* Characters and strings.                                                 *)
(***************************************************************************)
UpperSeq == <<"A","B","C","D","E","F","G","H","I","J","K","L","M",
              "N","O","P","Q","R","S","T","U","V","W","X","Y","Z">>
LowerSeq == <<"a","b","c","d","e","f","g","h","i","j","k","l","m",
              "n","o","p","q","r","s","t","u","v","w","x","y","z">>
Upper == {UpperSeq[i] : i \in 1..26}
Lower == {LowerSeq[i] : i \in 1..26}
Letters == Upper \cup Lower
Digits == {"0","1","2","3","4","5","6","7","8","9"}

\* str.lower() on one character
ToLower(c) ==
  IF c \in Upper THEN LowerSeq[CHOOSE i \in 1..26 : UpperSeq[i] = c] ELSE c

\* the characters str.strip() and str.split() treat as white space
Whitespace == {" ", "\n", "\t", "U+00A0"}

\* all sequences over S of length at most n
SeqsUpTo(S, n) == UNION {[1..k -> S] : k \in 0..n}

RECURSIVE JoinWith(_, _)
\* sep.join(parts)
JoinWith(sep, parts) ==
  IF parts = <<>> THEN <<>>
  ELSE IF Len(parts) = 1 THEN parts[1]
  ELSE parts[1] \o sep \o JoinWith(sep, Tail(parts))

\* c in s
Contains(s, c) == \E i \in 1..Len(s) : s[i] = c

\* str.strip(): leading and trailing characters of the set removed
StripSet(s, set) ==
  LET keep == {i \in 1..Len(s) : s[i] \notin set} IN
  IF keep = {} THEN <<>>
  ELSE LET lo == CHOOSE i \in keep : \A j \in keep : i <= j
           hi == CHOOSE i \in keep : \A j \in keep : j <= i
       IN SubSeq(s, lo, hi)

Strip(s) == StripSet(s, Whitespace)

RECURSIVE SplitOn(_, _)
\* s.split(sep) for a one-character separator: empty pieces are kept
SplitOn(s, sep) ==
  IF ~Contains(s, sep) THEN <<s>>
  ELSE LET i == CHOOSE k \in 1..Len(s) :
                   s[k] = sep /\ \A j \in 1..(k - 1) : s[j] # sep
       IN <<SubSeq(s, 1, i - 1)>> \o SplitOn(SubSeq(s, i + 1, Len(s)), sep)

RECURSIVE SplitWs(_)
\* s.split(): pieces between runs of white space, empty pieces dropped
SplitWs(s) ==
  LET t == Strip(s) IN
  IF t = <<>> THEN <<>>
  ELSE IF \A i \in 1..Len(t) : t[i] \notin Whitespace THEN <<t>>
  ELSE LET i == CHOOSE k \in 1..Len(t) :
                   t[k] \in Whitespace /\ \A j \in 1..(k - 1) : t[j] \notin Whitespace
       IN <<SubSeq(t, 1, i - 1)>> \o SplitWs(SubSeq(t, i + 1, Len(t)))

(***************************************************************************)
(* normalize: NFKD, then the four replacements, then strip.  NFKD maps     *)
(* U+00A0 to a space and U+2011 to U+2010 (their compatibility             *)
(* decompositions) and leaves U+2013, U+2014 and U+2010 alone.             *)
(***************************************************************************)
Nfkd(c) ==
  CASE c = "U+00A0" -> " "
    [] c = "U+2011" -> "U+2010"
    [] OTHER -> c

Replace(s, old, new) == [i \in 1..Len(s) |-> IF s[i] = old THEN new ELSE s[i]]

normalize(s) ==
  LET n  == [i \in 1..Len(s) |-> Nfkd(s[i])]
      r1 == Replace(n, "U+2013", "-")
      r2 == Replace(r1, "U+2014", "-")
      r3 == Replace(r2, "U+00A0", " ")
      r4 == Replace(r3, "U+2011", "-")
  IN Strip(r4)

(***************************************************************************)
(* urllib.parse.quote with the default safe="/": letters, digits and       *)
(* "_.-~/" are kept, every other character becomes its percent-escape.     *)
(***************************************************************************)
QuoteSafe == Letters \cup Digits \cup {"_", ".", "-", "~", "/"}

QuoteChar(c) ==
  CASE c \in QuoteSafe -> c
    [] c = " " -> "%20"
    [] c = "\n" -> "%0A"
    [] c = "\t" -> "%09"
    [] c = "?" -> "%3F"
    [] c = "&" -> "%26"
    [] c = "+" -> "%2B"
    [] c = "U+00A0" -> "%C2%A0"
    [] c = "U+2010" -> "%E2%80%90"
    [] c = "U+2011" -> "%E2%80%91"
    [] c = "U+2013" -> "%E2%80%93"
    [] c = "U+2014" -> "%E2%80%94"
    [] OTHER -> "%.."

quote(s) == [i \in 1..Len(s) |-> QuoteChar(s[i])]

(***************************************************************************)
(* format_pattern_to_regex.  The regular expression is a sequence of       *)
(* items: cls "d" is \d, "a" is [A-Za-z], "lit" is re.escape(ch); an item  *)
(* with open = TRUE is cls{min,}, any other item matches one character.    *)
(***************************************************************************)
ClassItem(run_char, run_len, open) ==
  [cls |-> IF run_char \in {"N", "n"} THEN "d" ELSE "a",
   ch |-> "", min |-> run_len, open |-> open]

LitItem(c) == [cls |-> "lit", ch |-> c, min |-> 1, open |-> FALSE]

\* the inner while loop: the length of the run of run_char starting at i
RunLen(fmt, i) ==
  LET stop == {k \in 1..(Len(fmt) - i + 1) :
                 i + k > Len(fmt) \/ ToLower(fmt[i + k]) # ToLower(fmt[i])}
  IN CHOOSE k \in stop : \A j \in stop : k <= j

\* the "+" suffix forgotten: the run taken as exactly run_len characters
PlusRunExact(run_char, run_len) == [k \in 1..run_len |-> ClassItem(run_char, 1, FALSE)]

\* a run of run_len class characters followed by "+": one open item
PlusRun(run_char, run_len) == <<ClassItem(run_char, run_len, TRUE)>>

\* a run not followed by "+": the class repeated run_len times
PlainRun(run_char, run_len) == [k \in 1..run_len |-> ClassItem(run_char, 1, FALSE)]

RECURSIVE RegexFrom(_, _)
\* the outer while loop from index i (1-based)
RegexFrom(fmt, i) ==
  IF i > Len(fmt) THEN <<>>
  ELSE IF fmt[i] \in {"N", "n", "L", "l"}
       THEN LET run_len == RunLen(fmt, i) IN
            IF i + run_len <= Len(fmt) /\ fmt[i + run_len] = "+"
            THEN PlusRun(fmt[i], run_len) \o RegexFrom(fmt, i + run_len + 1)
            ELSE PlainRun(fmt[i], run_len) \o RegexFrom(fmt, i + run_len)
       ELSE <<LitItem(fmt[i])>> \o RegexFrom(fmt, i + 1)

format_pattern_to_regex(fmt_pattern) == RegexFrom(fmt_pattern, 1)

(***************************************************************************)
(* re: a pattern compiled as ^regex$ with re.IGNORECASE.  \d is a digit,   *)
(* [A-Za-z] a letter, an escaped literal the character itself up to case.  *)
(***************************************************************************)
ItemAccepts(item, c) ==
  CASE item.cls = "d" -> c \in Digits
    [] item.cls = "a" -> c \in Letters
    [] OTHER -> ToLower(c) = ToLower(item.ch)

RECURSIVE MatchFrom(_, _, _, _)
\* whether items i.. of re match exactly s[j..]
MatchFrom(re, i, s, j) ==
  IF i > Len(re) THEN j > Len(s)
  ELSE IF re[i].open
       THEN \E m \in re[i].min..(Len(s) - j + 1) :
              /\ \A k \in j..(j + m - 1) : ItemAccepts(re[i], s[k])
              /\ MatchFrom(re, i + 1, s, j + m)
       ELSE /\ j <= Len(s)
            /\ ItemAccepts(re[i], s[j])
            /\ MatchFrom(re, i + 1, s, j + 1)

\* pattern.fullmatch(s) is not None
fullmatch(re, s) == MatchFrom(re, 1, s, 1)

NoMatch == <<"no match">>

\* pattern.search(s): "^" holds at the start only, "$" at the end or before
\* a final newline; the result is match.group(), or NoMatch
search(re, s) ==
  IF fullmatch(re, s) THEN s
  ELSE IF Len(s) > 0 /\ s[Len(s)] = "\n" /\ fullmatch(re, SubSeq(s, 1, Len(s) - 1))
       THEN SubSeq(s, 1, Len(s) - 1)
       ELSE NoMatch


(***************************************************************************)
(* URLs.  A URL is its scheme and host as one element followed by the      *)
(* characters of its path, query and fragment.                             *)
(***************************************************************************)
\* urllib.parse.urlparse(url).path: what follows the host, up to the first
\* "?" or "#"
UrlPath(url) ==
  LET cut == {i \in 2..Len(url) : url[i] \in {"?", "#"}}
      stop == IF cut = {} THEN Len(url) + 1
              ELSE CHOOSE i \in cut : \A j \in cut : i <= j
  IN SubSeq(url, 2, stop - 1)

extract_last_path_segment(url) ==
  LET path == StripSet(UrlPath(url), {"/"})
      parts == SplitOn(path, "/")
  IN IF path # <<>> THEN parts[Len(parts)] ELSE <<"l", "i", "n", "k">>

\* utm_base of process_pdf_logic, and the same text inlined in full_link
utm_base(source, medium, campaign) ==
  <<"utm_source=">> \o quote(source) \o <<"&", "utm_medium=">> \o quote(medium)
    \o <<"&", "utm_campaign=">> \o quote(campaign)

\* the query string not looked for: always "?"
DelimiterQuestion(url) == "?"

\* the two delimiters taken for each other
DelimiterSwapped(url) == IF Contains(url, "?") THEN "?" ELSE "&"

\* "&" if "?" in url else "?"
Delimiter(url) == IF Contains(url, "?") THEN "&" ELSE "?"

\* updated_url of the utm_only branch
UpdatedUrl(original, utm_val, source, medium, campaign) ==
  original \o <<Delimiter(original)>> \o utm_base(source, medium, campaign)
    \o <<"&", "utm_content=">> \o quote(utm_val)

\* full_link of the links_and_utm branch
FullLink(matched_url, text, source, medium, campaign) ==
  LET base_plus_text == matched_url \o text IN
  base_plus_text \o <<Delimiter(base_plus_text)>> \o utm_base(source, medium, campaign)
    \o <<"&", "utm_content=">> \o quote(text)

\* the visible text used whatever it contains
UtmValVisible(original, visible_text) == visible_text

\* the label the utm_only branch puts in utm_content
UtmVal(original, visible_text) ==
  IF Contains(visible_text, " ") THEN extract_last_path_segment(original)
  ELSE visible_text

(***************************************************************************)
(* The compiled pattern list of the links_and_utm branch.                  *)
(***************************************************************************)
\* one entry of format_dict: its comma-separated formats, each stripped and
\* compiled, all with the entry's url
EntryPatterns(fmt_string, url) ==
  LET formats == SplitOn(fmt_string, ",") IN
  [k \in 1..Len(formats) |->
     [re |-> format_pattern_to_regex(Strip(formats[k])), url |-> url]]

RECURSIVE Patterns(_)
\* format_map is the sequence of (format string, url) items of format_dict
Patterns(format_map) ==
  IF format_map = <<>> THEN <<>>
  ELSE EntryPatterns(format_map[1][1], format_map[1][2]) \o Patterns(Tail(format_map))

RECURSIVE ZipDict(_, _, _)
\* {tf: bu for tf, bu in zip(target_format, base_url)} as its item sequence:
\* a repeated key keeps its first position and takes the later value
ZipDict(target_format, base_url, acc) ==
  IF target_format = <<>> \/ base_url = <<>> THEN acc
  ELSE LET tf == Head(target_format)
           bu == Head(base_url)
           at == {i \in 1..Len(acc) : acc[i][1] = tf}
           nxt == IF at = {} THEN Append(acc, <<tf, bu>>)
                  ELSE [i \in 1..Len(acc) |-> IF i \in at THEN <<tf, bu>> ELSE acc[i]]
       IN ZipDict(Tail(target_format), Tail(base_url), nxt)


(***************************************************************************)
(* Documents.  A page holds what the code reads of it: the words of        *)
(* get_text("words"), the lines of spans of get_text("dict"), its link     *)
(* annotations and the text get_textbox finds inside a rectangle.  A       *)
(* rectangle is (x0, y0, x1, y1).  The two text views are independent      *)
(* inputs, which covers every way the library may cut a page into words    *)
(* and spans.                                                              *)
(***************************************************************************)
R1 == <<0, 0, 40, 10>>
R2 == <<50, 0, 90, 10>>
Rects == {R1, R2}

NoUri == <<"no uri">>          \* a link annotation without "uri" (a GOTO link)

Host(h) == <<h>>
UShop == Host("https://shop.example.com") \o <<"/", "p", "/", "1", "2", "3", "4">>
UQuery == Host("https://x.com") \o <<"/", "a", "?", "i", "d", "=", "9">>
URoot == Host("https://x.com") \o <<"/">>
UTrack == Host("https://track.example.com") \o <<"/">>
UAlt == Host("https://alt.example.com") \o <<"/">>
UTrackQ == Host("https://track.example.com") \o <<"/", "?", "i", "d", "=">>

TBuyNow == <<"B", "u", "y", " ", "N", "o", "w">>
TDownload == <<" ", "d", "o", "w", "n", "l", "o", "a", "d", "\n">>
TWrapped == <<"L", "e", "a", "r", "n", "\n", "M", "o", "r", "e">>
VisibleTexts == {TBuyNow, TDownload, TWrapped}

TToken == <<"A", "B", "-", "1", "2">>
TTokenNb == <<"A", "B", "U+2011", "1", "2">>
TAb == <<"A", "B">>
T12 == <<"1", "2">>

Unit(text, rect) == [text |-> text, bbox |-> rect]

WordUnits == {Unit(TToken, R1), Unit(TTokenNb, R2)}
SpanUnits == {Unit(TToken, R1), Unit(TAb, R1), Unit(T12, R2)}
LinkUnits == {[from |-> R1, uri |-> UShop], [from |-> R1, uri |-> UQuery],
              [from |-> R2, uri |-> URoot], [from |-> R2, uri |-> NoUri]}

NoText == [r \in Rects |-> <<>>]

\* the pages a utm_only request is tried on: link annotations over text
UtmPages ==
  {[words |-> <<>>, lines |-> <<>>, links |-> l, textbox |-> t] :
     l \in SeqsUpTo(LinkUnits, MaxLinks), t \in [Rects -> VisibleTexts]}

\* the spans of a page laid out as one line, or one line per span
Layouts(spans) ==
  {<<spans>>, [k \in 1..Len(spans) |-> <<spans[k]>>]}

\* the pages a links_and_utm request is tried on: text without links
TextPages ==
  {[words |-> w, lines |-> l, links |-> <<>>, textbox |-> NoText] :
     w \in SeqsUpTo(WordUnits, MaxWords),
     l \in UNION {Layouts(sp) : sp \in SeqsUpTo(SpanUnits, MaxSpans)}}

BlankPage == [words |-> <<>>, lines |-> <<>>, links |-> <<>>, textbox |-> NoText]

\* documents of 1..MaxPages pages: the same page content on every page, so
\* that every rectangle occurs on every page
DocsOf(pages) == {[i \in 1..n |-> p] : n \in 1..MaxPages, p \in pages}

(***************************************************************************)
(* Requests: the form fields of /process and /preview that the PDF branch  *)
(* reads.  target_format and base_url are <<>> when the field is absent.   *)
(***************************************************************************)
SIg == <<"i", "g">>
SSocial == <<"s", "o", "c", "i", "a", "l">>
SLaunch == <<"l", "a", "u", "n", "c", "h">>
SNews == <<"n", "e", "w", "s">>
SEmail == <<"e", "m", "a", "i", "l">>
SSpring == <<"s", "p", "r", "i", "n", "g">>
SFallSale == <<"f", "a", "l", "l", " ", "s", "a", "l", "e">>

UtmTriples == {<<SIg, SSocial, SLaunch>>, <<SNews, SEmail, SFallSale>>}
TextTriples == {<<SNews, SEmail, SSpring>>}

FExact == <<"L", "L", "-", "N", "N">>
FOpen == <<"L", "+", "-", "N", "+">>
FPair == <<"L", "L", " ", "N", "N", ",", " ", "l", "l", "-", "n", "n">>

\* (target_format, base_url) field pairs that pass validation
FormatFields ==
  {<< <<FExact>>, <<UTrack>> >>,
   << <<FOpen, FExact>>, <<UAlt, UTrack>> >>,
   << <<FPair>>, <<UTrackQ>> >>}

\* field pairs that fail validation: absent, and of different lengths
BadFormatFields ==
  {<< <<>>, <<>> >>, << <<FExact>>, <<>> >>, << <<FExact, FOpen>>, <<UTrack>> >>}

Request(job_type, doc, utm, fields, underline) ==
  [job_type |-> job_type, doc |-> doc,
   source |-> utm[1], medium |-> utm[2], campaign |-> utm[3],
   target_format |-> fields[1], base_url |-> fields[2], underline |-> underline]

UtmRequests ==
  {Request("utm_only", d, u, << <<>>, <<>> >>, FALSE) :
     d \in DocsOf(UtmPages), u \in UtmTriples}

\* a text page with one word, and with at most one span
SmallTextPages == {q \in TextPages : Len(q.words) = 1 /\ Len(q.lines) <= 1}

TextRequests ==
  {Request("links_and_utm", d, u, f, ul) :
     d \in DocsOf(TextPages), u \in TextTriples, f \in FormatFields, ul \in BOOLEAN}
  \cup {Request("links_and_utm", <<p>>, <<SNews, SEmail, SFallSale>>, f, FALSE) :
     p \in SmallTextPages, f \in FormatFields}

BadRequests ==
  {Request("links_and_utm", <<p>>, u, f, FALSE) :
     p \in SmallTextPages, u \in TextTriples, f \in BadFormatFields}

OtherRequests ==
  {Request("other", <<p>>, u, << <<>>, <<>> >>, FALSE) :
     p \in SmallTextPages, u \in TextTriples}

IdleRequest == Request("other", <<BlankPage>>, <<SNews, SEmail, SSpring>>, << <<>>, <<>> >>, FALSE)

Requests == UtmRequests \cup TextRequests \cup BadRequests \cup OtherRequests

(***************************************************************************)
(* State.                                                                  *)
(***************************************************************************)
VARIABLES
  req,            \* the request being served
  run,            \* how many times the request has been submitted
  prev,           \* the (page, rect) regions earlier submissions linked
  pc,             \* where the handler is
  format_map,     \* process_file's format_map
  page_num,       \* the page loop's index, from 1
  idx,            \* the index of the link, word or line being visited
  pidx,           \* the index of the pattern tried on the line
  final_links,    \* the link annotations of each page of final_pdf
  preview_links,  \* the link annotations of each page of preview_pdf
  red_rects,
  link_count,
  already_linked,
  underlines,     \* the (page, bbox) of every draw_line on final_pdf
  calls,          \* this run's insert_link calls on final_pdf
  response,       \* what the handler answered
  pat_in,         \* a format string and a text given to the pattern compiler
  pat_out,        \* whether the compiled pattern accepted the text
  syn_in,         \* a url, a text and a UTM triple given to the link synthesizer
  syn_out,        \* the target the synthesizer built
  norm_in,        \* a word and a format given to normalize and the matcher
  norm_out        \* the normalized word, and whether the format's pattern took it

vars == <<req, run, prev, pc, format_map, page_num, idx, pidx, final_links,
          preview_links, red_rects, link_count, already_linked, underlines,
          calls, response, pat_in, pat_out, syn_in, syn_out, norm_in, norm_out>>

engine == <<req, run, prev, pc, format_map, page_num, idx, pidx, final_links,
            preview_links, red_rects, link_count, already_linked, underlines,
            calls, response>>

NoMap == [given |-> FALSE, items |-> <<>>]
NoResponse == [status |-> 0, kind |-> "none", error |-> "none", body |-> FALSE,
               links |-> <<>>, outlines |-> <<>>, underlines |-> <<>>, count |-> 0]

\* the link annotations of a page as opened: orig is the position of the
\* annotation in get_links(), 0 for one inserted later
Annots(links) ==
  [i \in 1..Len(links) |-> [from |-> links[i].from, uri |-> links[i].uri, orig |-> i]]

\* page.delete_link(link): the annotation get_links() gave at position i
DeleteLink(annots, i) == SelectSeq(annots, LAMBDA a : a.orig # i)

\* page.insert_link({"from": rect, "uri": uri, ...})
InsertLink(annots, rect, uri) == Append(annots, [from |-> rect, uri |-> uri, orig |-> 0])

PageCount == Len(req.doc)
Page == req.doc[page_num]

\* the locals of process_pdf_logic that one loop iteration may change
Locals ==
  [final |-> final_links, preview |-> preview_links, red |-> red_rects,
   count |-> link_count, linked |-> already_linked, under |-> underlines,
   calls |-> calls]

SetLocals(acc) ==
  /\ final_links' = acc.final
  /\ preview_links' = acc.preview
  /\ red_rects' = acc.red
  /\ link_count' = acc.count
  /\ already_linked' = acc.linked
  /\ underlines' = acc.under
  /\ calls' = acc.calls

\* the membership test forgotten: no region counts as linked
LinkedNever(acc, page, rect) == FALSE

\* (page_num, rect) in already_linked
Linked(acc, page, rect) == <<page, rect>> \in acc.linked

\* what the preview page gets for a rewritten link: insert_link only
PreviewRewrite(annots, i, rect, uri) == InsertLink(annots, rect, uri)

\* one existing link of the utm_only branch
RewriteLink(acc, page, i, link, textbox) ==
  LET original == link.uri
      rect == link.from
      visible_text == Strip(textbox[rect])
      utm_val == UtmVal(original, visible_text)
      updated_url == UpdatedUrl(original, utm_val, req.source, req.medium, req.campaign)
  IN [acc EXCEPT
        !.final[page] = InsertLink(DeleteLink(@, i), rect, updated_url),
        !.preview[page] = PreviewRewrite(@, i, rect, updated_url),
        !.red = Append(@, <<page, rect>>),
        !.count = @ + 1,
        !.calls = Append(@, [page |-> page, from |-> rect, uri |-> updated_url,
                             via |-> "utm", src |-> original, text |-> visible_text,
                             pat |-> 0])]

\* the body shared by the three places of the links_and_utm branch that
\* install a link; the word pass never underlines
NewLink(acc, page, rect, url, text, via, pat, underline) ==
  LET full_link == FullLink(url, text, req.source, req.medium, req.campaign) IN
  [acc EXCEPT
     !.final[page] = InsertLink(@, rect, full_link),
     !.preview[page] = InsertLink(@, rect, full_link),
     !.under = IF underline THEN Append(@, <<page, rect>>) ELSE @,
     !.red = Append(@, <<page, rect>>),
     !.linked = @ \cup {<<page, rect>>},
     !.count = @ + 1,
     !.calls = Append(@, [page |-> page, from |-> rect, uri |-> full_link,
                          via |-> via, src |-> url, text |-> text, pat |-> pat])]

RECURSIVE WordLoop(_, _, _, _, _)
\* for pattern, matched_url in patterns (from index p), for one word
WordLoop(acc, page, word, patterns, p) ==
  IF p > Len(patterns) THEN acc
  ELSE LET clean_text == normalize(word.text) IN
       IF fullmatch(patterns[p].re, clean_text)
       THEN IF Linked(acc, page, word.bbox)
            THEN WordLoop(acc, page, word, patterns, p + 1)
            ELSE NewLink(acc, page, word.bbox, patterns[p].url, clean_text, "word", p, FALSE)
       ELSE WordLoop(acc, page, word, patterns, p + 1)

\* span_data of a line
SpanData(line) == [k \in 1..Len(line) |-> Unit(normalize(line[k].text), line[k].bbox)]

\* line_text of a line
LineText(span_data) == JoinWith(<<" ">>, [k \in 1..Len(span_data) |-> span_data[k].text])

RECURSIVE TokenLoop(_, _, _, _, _, _, _)
\* the fallback: for span_text, bbox in span_data (from index k), the first
\* mword equal to the span that is not linked yet links it
TokenLoop(acc, page, span_data, match_words, pattern, p, k) ==
  IF k > Len(span_data) THEN acc
  ELSE LET sp == span_data[k]
           hit == \E j \in 1..Len(match_words) :
                    match_words[j] = sp.text /\ Len(match_words[j]) > 0
       IN IF hit /\ ~Linked(acc, page, sp.bbox)
          THEN TokenLoop(NewLink(acc, page, sp.bbox, pattern.url, sp.text, "token", p,
                                 req.underline),
                         page, span_data, match_words, pattern, p, k + 1)
          ELSE TokenLoop(acc, page, span_data, match_words, pattern, p, k + 1)

\* one pattern tried on one line of the span pass
LinePattern(acc, page, line, pattern, p) ==
  LET span_data == SpanData(line)
      match_str == search(pattern.re, LineText(span_data))
      whole == {k \in 1..Len(span_data) :
                  /\ match_str = span_data[k].text
                  /\ Len(match_str) > 0
                  /\ ~Linked(acc, page, span_data[k].bbox)}
  IN IF match_str = NoMatch THEN acc
     ELSE IF whole # {}
          THEN LET k == CHOOSE i \in whole : \A j \in whole : i <= j IN
               NewLink(acc, page, span_data[k].bbox, pattern.url, match_str, "span", p,
                       req.underline)
          ELSE TokenLoop(acc, page, span_data, SplitWs(match_str), pattern, p, 1)


(***************************************************************************)
(* The handlers.  process_file and process_preview_pdf validate the form   *)
(* alike and call process_pdf_logic; they differ in what they save.  One   *)
(* action is one step of that code: the validation, the start of a page,   *)
(* one iteration of a loop over links, words or (line, pattern), the save. *)
(***************************************************************************)
Answer(status, kind, error, body, links, outlines, under, count) ==
  [status |-> status, kind |-> kind, error |-> error, body |-> body,
   links |-> links, outlines |-> outlines, underlines |-> under, count |-> count]

\* except ValueError -> 400, except Exception -> 500; nothing but the error
\* message is returned and the locals of the call are gone
Status(exc) == IF exc = "ValueError" THEN 400 ELSE 500

Raise(exc, error) ==
  /\ response' = Answer(Status(exc), "error", error, FALSE, <<>>, <<>>, <<>>, 0)
  /\ pc' = "done"
  /\ format_map' = NoMap
  /\ page_num' = 0
  /\ idx' = 0
  /\ pidx' = 0
  /\ final_links' = <<>>
  /\ preview_links' = <<>>
  /\ red_rects' = <<>>
  /\ link_count' = 0
  /\ already_linked' = {}
  /\ underlines' = <<>>
  /\ calls' = <<>>

\* the form validation of both handlers, then the first lines of
\* process_pdf_logic: both documents opened from the same bytes
ProcessFile ==
  /\ pc = "request"
  /\ IF req.job_type = "links_and_utm" /\ (req.target_format = <<>> \/ req.base_url = <<>>)
     THEN Raise("ValueError", "required")
     ELSE IF req.job_type = "links_and_utm" /\ Len(req.target_format) # Len(req.base_url)
     THEN Raise("ValueError", "mismatch")
     ELSE /\ format_map' = IF req.job_type = "links_and_utm"
                           THEN [given |-> TRUE,
                                 items |-> ZipDict(req.target_format, req.base_url, <<>>)]
                           ELSE NoMap
          /\ final_links' = [p \in 1..PageCount |-> Annots(req.doc[p].links)]
          /\ preview_links' = [p \in 1..PageCount |-> Annots(req.doc[p].links)]
          /\ red_rects' = <<>>
          /\ link_count' = 0
          /\ page_num' = 1
          /\ pc' = "page"
          /\ UNCHANGED <<idx, pidx, already_linked, underlines, calls, response>>
  /\ UNCHANGED <<req, run, prev, pat_in, pat_out, syn_in, syn_out, norm_in, norm_out>>

\* the head of the page loop and the branch on job_type
PageStart ==
  /\ pc = "page"
  /\ IF page_num > PageCount
     THEN /\ pc' = "return"
          /\ UNCHANGED <<page_num, idx, pidx, already_linked, response, format_map,
                         final_links, preview_links, red_rects, link_count,
                         underlines, calls>>
     ELSE IF req.job_type = "utm_only"
     THEN /\ pc' = "utm"
          /\ idx' = 1
          /\ UNCHANGED <<page_num, pidx, already_linked, response, format_map,
                         final_links, preview_links, red_rects, link_count,
                         underlines, calls>>
     ELSE IF req.job_type = "links_and_utm"
     THEN IF ~format_map.given
          THEN Raise("ValueError", "Format map is required.")
          ELSE /\ pc' = "words"
               /\ idx' = 1
               /\ already_linked' = {}
               /\ UNCHANGED <<page_num, pidx, response, format_map, final_links,
                              preview_links, red_rects, link_count, underlines, calls>>
     ELSE /\ page_num' = page_num + 1
          /\ UNCHANGED <<pc, idx, pidx, already_linked, response, format_map,
                         final_links, preview_links, red_rects, link_count,
                         underlines, calls>>
  /\ UNCHANGED <<req, run, prev, pat_in, pat_out, syn_in, syn_out, norm_in, norm_out>>

\* for link in links: one existing link annotation of the page
UtmStep ==
  /\ pc = "utm"
  /\ IF idx > Len(Page.links)
     THEN /\ pc' = "page"
          /\ page_num' = page_num + 1
          /\ UNCHANGED <<idx, final_links, preview_links, red_rects, link_count,
                         already_linked, underlines, calls>>
     ELSE /\ idx' = idx + 1
          /\ SetLocals(IF Page.links[idx].uri # NoUri
                       THEN RewriteLink(Locals, page_num, idx, Page.links[idx], Page.textbox)
                       ELSE Locals)
          /\ UNCHANGED <<pc, page_num>>
  /\ UNCHANGED <<req, run, prev, format_map, pidx, response, pat_in, pat_out, syn_in, syn_out, norm_in, norm_out>>

\* for word in words_mode: one word against the patterns in order
WordStep ==
  /\ pc = "words"
  /\ IF idx > Len(Page.words)
     THEN /\ pc' = "spans"
          /\ idx' = 1
          /\ pidx' = 1
          /\ UNCHANGED <<final_links, preview_links, red_rects, link_count,
                         already_linked, underlines, calls>>
     ELSE /\ idx' = idx + 1
          /\ SetLocals(WordLoop(Locals, page_num, Page.words[idx],
                                Patterns(format_map.items), 1))
          /\ UNCHANGED <<pc, pidx>>
  /\ UNCHANGED <<req, run, prev, format_map, page_num, response, pat_in, pat_out, syn_in, syn_out, norm_in, norm_out>>

\* for line ...: for pattern, matched_url in patterns: one pattern on one line
SpanStep ==
  /\ pc = "spans"
  /\ LET patterns == Patterns(format_map.items) IN
     IF idx > Len(Page.lines)
     THEN /\ pc' = "page"
          /\ page_num' = page_num + 1
          /\ UNCHANGED <<idx, pidx, final_links, preview_links, red_rects, link_count,
                         already_linked, underlines, calls>>
     ELSE /\ SetLocals(LinePattern(Locals, page_num, Page.lines[idx], patterns[pidx], pidx))
          /\ IF pidx < Len(patterns)
             THEN pidx' = pidx + 1 /\ idx' = idx
             ELSE pidx' = 1 /\ idx' = idx + 1
          /\ UNCHANGED <<pc, page_num>>
  /\ UNCHANGED <<req, run, prev, format_map, response, pat_in, pat_out, syn_in, syn_out, norm_in, norm_out>>

\* what is saved of a document: its link annotations, page by page
Saved(annots) ==
  [p \in 1..Len(annots) |->
     [i \in 1..Len(annots[p]) |-> [from |-> annots[p][i].from, uri |-> annots[p][i].uri]]]

\* /process: final_pdf saved and streamed with X-Link-Count
SaveFinal ==
  /\ pc = "return"
  /\ response' = Answer(200, "process", "none", TRUE, Saved(final_links), <<>>,
                        underlines, link_count)
  /\ pc' = "done"
  /\ UNCHANGED <<req, run, prev, format_map, page_num, idx, pidx, final_links,
                 preview_links, red_rects, link_count, already_linked, underlines,
                 calls, pat_in, pat_out, syn_in, syn_out, norm_in, norm_out>>

\* /preview: a rectangle drawn on preview_pdf for every red_rects entry, then
\* preview_pdf saved and streamed with X-Link-Count
SavePreview ==
  /\ pc = "return"
  /\ response' = Answer(200, "preview", "none", TRUE, Saved(preview_links), red_rects,
                        <<>>, link_count)
  /\ pc' = "done"
  /\ UNCHANGED <<req, run, prev, format_map, page_num, idx, pidx, final_links,
                 preview_links, red_rects, link_count, already_linked, underlines,
                 calls, pat_in, pat_out, syn_in, syn_out, norm_in, norm_out>>

\* the classes of exception a library call inside the try block may raise:
\* ValueError (or a subclass of it), or any other Exception
ExcTypes == {"ValueError", "RuntimeError"}

\* a call of the library (fitz, urllib, io) raises while the document is
\* opened, scanned, annotated or saved
Fault ==
  /\ pc \in {"page", "utm", "words", "spans", "return"}
  /\ \E exc \in ExcTypes : Raise(exc, "fault")
  /\ UNCHANGED <<req, run, prev, pat_in, pat_out, syn_in, syn_out, norm_in, norm_out>>

\* the client submits the document /process returned, with the same form
Rerun ==
  /\ pc = "done"
  /\ response.status = 200
  /\ response.kind = "process"
  /\ run < MaxRuns
  /\ req' = [req EXCEPT !.doc = [p \in 1..PageCount |-> [@[p] EXCEPT !.links = response.links[p]]]]
  /\ run' = run + 1
  /\ prev' = prev \cup {red_rects[i] : i \in 1..Len(red_rects)}
  /\ pc' = "request"
  /\ format_map' = NoMap
  /\ page_num' = 0
  /\ idx' = 0
  /\ pidx' = 0
  /\ final_links' = <<>>
  /\ preview_links' = <<>>
  /\ red_rects' = <<>>
  /\ link_count' = 0
  /\ already_linked' = {}
  /\ underlines' = <<>>
  /\ calls' = <<>>
  /\ response' = NoResponse
  /\ UNCHANGED <<pat_in, pat_out, syn_in, syn_out, norm_in, norm_out>>

NoPattern == [fmt |-> <<>>, s |-> <<>>]
NoSynth == [url |-> <<>>, text |-> <<>>, utm |-> <<SNews, SEmail, SSpring>>]
NoTarget == [via |-> "idle", uri |-> <<>>]
NoWord == [text |-> <<>>, fmt |-> <<>>]
NoNorm == [done |-> FALSE, text |-> <<>>, hit |-> FALSE]

\* a request has arrived and nothing of it has been looked at
Arrived(r) ==
  /\ req = r
  /\ run = 1
  /\ prev = {}
  /\ format_map = NoMap
  /\ page_num = 0
  /\ idx = 0
  /\ pidx = 0
  /\ final_links = <<>>
  /\ preview_links = <<>>
  /\ red_rects = <<>>
  /\ link_count = 0
  /\ already_linked = {}
  /\ underlines = <<>>
  /\ calls = <<>>
  /\ response = NoResponse

Idle ==
  /\ pat_in = NoPattern
  /\ pat_out = "idle"
  /\ syn_in = NoSynth
  /\ syn_out = NoTarget
  /\ norm_in = NoWord
  /\ norm_out = NoNorm

Init ==
  /\ \E r \in Requests : Arrived(r)
  /\ pc = "request"
  /\ Idle

Next ==
  \/ ProcessFile
  \/ PageStart
  \/ UtmStep
  \/ WordStep
  \/ SpanStep
  \/ SaveFinal
  \/ SavePreview
  \/ Fault
  \/ Rerun

Spec == Init /\ [][Next]_vars

(***************************************************************************)
(* The two job types on their own: one request of the job type served      *)
(* once, without a fault; the links_and_utm requests are those that ask    *)
(* for no underline.                                                       *)
(***************************************************************************)
PlainTextRequests == {r \in TextRequests : ~r.underline}

InitText ==
  /\ \E r \in PlainTextRequests : Arrived(r)
  /\ pc = "request"
  /\ Idle

NextText ==
  \/ ProcessFile
  \/ PageStart
  \/ WordStep
  \/ SpanStep
  \/ SaveFinal
  \/ SavePreview

SpecText == InitText /\ [][NextText]_vars

InitUtm ==
  /\ \E r \in UtmRequests : Arrived(r)
  /\ pc = "request"
  /\ Idle

NextUtm ==
  \/ ProcessFile
  \/ PageStart
  \/ UtmStep
  \/ SaveFinal
  \/ SavePreview

SpecUtm == InitUtm /\ [][NextUtm]_vars

(***************************************************************************)
(* The link synthesizer on its own: the target built from a url, a text    *)
(* and a UTM triple, the way the utm_only branch builds it (the url is the *)
(* existing target, the text the visible text under the link) and the way  *)
(* the links_and_utm branch builds it (the url is the base URL, the text   *)
(* the match).                                                             *)
(***************************************************************************)
UrlChars == {"/", "a", "?", "="}
SynthUrls == {Host("https://x.com") \o t : t \in SeqsUpTo(UrlChars, MaxUrlLen)}
SynthTexts == {TBuyNow, TWrapped, TToken, <<"7", "?">>}

SynthInputs ==
  {[url |-> u, text |-> t, utm |-> m] :
     u \in SynthUrls, t \in SynthTexts, m \in UtmTriples \cup TextTriples}

InitSynth ==
  /\ syn_in \in SynthInputs
  /\ syn_out = NoTarget
  /\ pat_in = NoPattern
  /\ pat_out = "idle"
  /\ norm_in = NoWord
  /\ norm_out = NoNorm
  /\ Arrived(IdleRequest)
  /\ pc = "idle"

\* updated_url of the utm_only branch
SynthUpdated ==
  /\ syn_out = NoTarget
  /\ syn_out' = [via |-> "utm",
                 uri |-> UpdatedUrl(syn_in.url, UtmVal(syn_in.url, Strip(syn_in.text)),
                                    syn_in.utm[1], syn_in.utm[2], syn_in.utm[3])]
  /\ UNCHANGED <<syn_in, pat_in, pat_out, norm_in, norm_out, engine>>

\* full_link of the links_and_utm branch
SynthFull ==
  /\ syn_out = NoTarget
  /\ syn_out' = [via |-> "match",
                 uri |-> FullLink(syn_in.url, syn_in.text,
                                  syn_in.utm[1], syn_in.utm[2], syn_in.utm[3])]
  /\ UNCHANGED <<syn_in, pat_in, pat_out, norm_in, norm_out, engine>>

NextSynth == SynthUpdated \/ SynthFull

SpecSynth == InitSynth /\ [][NextSynth]_vars


(***************************************************************************)
(* The pattern compiler on its own: a format string is compiled and the    *)
(* pattern applied to a text the way the word pass (fullmatch) and the     *)
(* span pass (search) apply it.  The texts are normalized ones: they       *)
(* neither start nor end with white space.                                 *)
(***************************************************************************)
FmtChars == {"N", "n", "L", "+", "x"}
StrChars == {"1", "a", "X", "+"}

ExampleInputs ==
  {[fmt |-> <<"N", "N", "N", "-", "L", "L", "L">>, s |-> <<"1", "2", "3", "-", "A", "B", "C">>],
   [fmt |-> <<"N", "N", "N", "-", "L", "L", "L">>, s |-> <<"1", "2", "-", "A", "B", "C">>],
   [fmt |-> <<"N", "N", "N", "-", "L", "L", "L">>, s |-> <<"1", "2", "3", "-", "A", "B", "1">>],
   [fmt |-> <<"N", "+">>, s |-> <<"5">>],
   [fmt |-> <<"N", "+">>, s |-> <<"1", "2", "3", "4", "5">>],
   [fmt |-> <<"N", "+">>, s |-> <<>>]}

PatternInputs ==
  {[fmt |-> f, s |-> t] : f \in SeqsUpTo(FmtChars, MaxFmtLen), t \in SeqsUpTo(StrChars, MaxStrLen)}
    \cup ExampleInputs

InitPattern ==
  /\ pat_in \in PatternInputs
  /\ pat_out = "idle"
  /\ syn_in = NoSynth
  /\ syn_out = NoTarget
  /\ norm_in = NoWord
  /\ norm_out = NoNorm
  /\ Arrived(IdleRequest)
  /\ pc = "idle"

\* re.compile(rf"^{regex}$", re.IGNORECASE).fullmatch(clean_text)
ApplyFullmatch ==
  /\ pat_out = "idle"
  /\ pat_out' = IF fullmatch(format_pattern_to_regex(pat_in.fmt), pat_in.s)
                THEN "accept" ELSE "reject"
  /\ UNCHANGED <<pat_in, syn_in, syn_out, norm_in, norm_out, engine>>

\* re.compile(rf"^{regex}$", re.IGNORECASE).search(line_text)
ApplySearch ==
  /\ pat_out = "idle"
  /\ pat_out' = IF search(format_pattern_to_regex(pat_in.fmt), pat_in.s) # NoMatch
                THEN "found" ELSE "not found"
  /\ UNCHANGED <<pat_in, syn_in, syn_out, norm_in, norm_out, engine>>

NextPattern == ApplyFullmatch \/ ApplySearch

SpecPattern == InitPattern /\ [][NextPattern]_vars

(***************************************************************************)
(* normalize on its own, followed by the match of the word pass: a word    *)
(* over letters, digits, the hyphen, the space and the four typographic    *)
(* variants (en dash U+2013, em dash U+2014, non-breaking hyphen U+2011,   *)
(* non-breaking space U+00A0), and a format.                               *)
(***************************************************************************)
Variants == {"U+2013", "U+2014", "U+2011", "U+00A0"}
NormChars == {"A", "1", "-", " "} \cup Variants
NormFormats == {<<"L", "-", "N">>, <<"L", "+", "-", "N", "+">>, <<"L", " ", "N">>}

\* INV-2024 against LLL-NNNN, with each way of writing the hyphen
InvInputs ==
  {[text |-> <<"I", "N", "V", h, "2", "0", "2", "4">>,
    fmt |-> <<"L", "L", "L", "-", "N", "N", "N", "N">>] :
     h \in {"-", "U+2013", "U+2014", "U+2011"}}

NormInputs ==
  {[text |-> t, fmt |-> f] : t \in SeqsUpTo(NormChars, MaxStrLen), f \in NormFormats}
    \cup InvInputs

InitNormalize ==
  /\ norm_in \in NormInputs
  /\ norm_out = NoNorm
  /\ pat_in = NoPattern
  /\ pat_out = "idle"
  /\ syn_in = NoSynth
  /\ syn_out = NoTarget
  /\ Arrived(IdleRequest)
  /\ pc = "idle"

\* clean_text = normalize(text); pattern.fullmatch(clean_text)
ApplyNormalize ==
  /\ ~norm_out.done
  /\ LET clean_text == normalize(norm_in.text) IN
     norm_out' = [done |-> TRUE, text |-> clean_text,
                  hit |-> fullmatch(format_pattern_to_regex(norm_in.fmt), clean_text)]
  /\ UNCHANGED <<norm_in, pat_in, pat_out, syn_in, syn_out, engine>>

NextNormalize == ApplyNormalize

SpecNormalize == InitNormalize /\ [][NextNormalize]_vars

(***************************************************************************)
(* The shape a format string denotes, as the mini-language is described:   *)
(* N is a digit and L a letter in either case, a maximal run of k of them  *)
(* stands for exactly k, or for k and more when "+" follows the run, and   *)
(* any other character stands for itself.                                  *)
(***************************************************************************)
IsDigitToken(c) == c \in {"N", "n"}
IsLetterToken(c) == c \in {"L", "l"}
IsToken(c) == IsDigitToken(c) \/ IsLetterToken(c)
SameToken(c, d) == (IsDigitToken(c) /\ IsDigitToken(d)) \/ (IsLetterToken(c) /\ IsLetterToken(d))

\* position i starts a run; a "+" right after a token character marks its run
StartsRun(fmt, i) == IsToken(fmt[i]) /\ (i = 1 \/ ~SameToken(fmt[i - 1], fmt[i]))
IsPlusMark(fmt, i) == fmt[i] = "+" /\ i > 1 /\ IsToken(fmt[i - 1])
RunEnd(fmt, i) ==
  CHOOSE e \in i..Len(fmt) :
    /\ \A j \in i..e : SameToken(fmt[i], fmt[j])
    /\ (e = Len(fmt) \/ ~SameToken(fmt[i], fmt[e + 1]))

\* the segments of the shape, in order of their first position
SegmentStarts(fmt) ==
  {i \in 1..Len(fmt) : StartsRun(fmt, i) \/ (~IsToken(fmt[i]) /\ ~IsPlusMark(fmt, i))}

Segment(fmt, i) ==
  IF IsToken(fmt[i])
  THEN LET e == RunEnd(fmt, i) IN
       [kind |-> IF IsDigitToken(fmt[i]) THEN "digit" ELSE "letter", ch |-> "",
        k |-> e - i + 1, more |-> e < Len(fmt) /\ fmt[e + 1] = "+"]
  ELSE [kind |-> "literal", ch |-> fmt[i], k |-> 1, more |-> FALSE]

RECURSIVE SegmentsOf(_, _)
SegmentsOf(fmt, starts) ==
  IF starts = {} THEN <<>>
  ELSE LET i == CHOOSE x \in starts : \A y \in starts : x <= y IN
       <<Segment(fmt, i)>> \o SegmentsOf(fmt, starts \ {i})

CharFits(seg, c) ==
  CASE seg.kind = "digit" -> c \in Digits
    [] seg.kind = "letter" -> c \in Letters
    [] OTHER -> ToLower(c) = ToLower(seg.ch)

PieceFits(seg, piece) ==
  /\ IF seg.more THEN Len(piece) >= seg.k ELSE Len(piece) = seg.k
  /\ \A i \in 1..Len(piece) : CharFits(seg, piece[i])

RECURSIVE PiecesFit(_, _)
\* s is the concatenation of one fitting piece per segment
PiecesFit(segs, s) ==
  IF segs = <<>> THEN s = <<>>
  ELSE \E m \in 0..Len(s) :
         /\ PieceFits(Head(segs), SubSeq(s, 1, m))
         /\ PiecesFit(Tail(segs), SubSeq(s, m + 1, Len(s)))

ShapeAccepts(fmt, s) == PiecesFit(SegmentsOf(fmt, SegmentStarts(fmt)), s)

\* C4: the compiled pattern, applied anchored and case-insensitively (by
\* fullmatch as by search), accepts a text exactly when the text has the
\* format's shape: k digits or letters for a run of k, k or more for a run
\* followed by "+", every other character itself.
C4_PatternAcceptsExactlyShape ==
  pat_out # "idle" =>
    ((pat_out \in {"accept", "found"}) <=> ShapeAccepts(pat_in.fmt, pat_in.s))

\* a run followed by "+" has accepted more characters than the run is long
C4_Witness ==
  /\ pat_out = "accept"
  /\ pat_in.fmt = <<"N", "+">>
  /\ pat_in.s = <<"1", "2", "3", "4", "5">>


(***************************************************************************)
(* Properties of a run of process_pdf_logic.                               *)
(***************************************************************************)
\* the locals of process_pdf_logic are alive: the call is running or has
\* returned to a handler that answered 200
InRun ==
  \/ pc \in {"page", "utm", "words", "spans", "return"}
  \/ (pc = "done" /\ response.status = 200)

\* the call has gone through every page
Returned == pc = "return" \/ (pc = "done" /\ response.status = 200)

\* the annotations this run inserted at a rectangle of a page of final_pdf
InsertedAt(p, r) == SelectSeq(final_links[p], LAMBDA a : a.from = r /\ a.orig = 0)

\* the patterns the request configures
ReqPatterns == Patterns(ZipDict(req.target_format, req.base_url, <<>>))

\* C1: in one run no (page, rect) pair is the target of two insert_link
\* calls on the final document, whatever the job type.
C1_AtMostOneInsertPerRect ==
  \A i, j \in 1..Len(calls) :
    (calls[i].page = calls[j].page /\ calls[i].from = calls[j].from) => i = j

\* the matches of the word pass at a rectangle: (word, pattern) pairs
WordCands(pats, p, r) ==
  {c \in (1..Len(req.doc[p].words)) \X (1..Len(pats)) :
     /\ req.doc[p].words[c[1]].bbox = r
     /\ fullmatch(pats[c[2]].re, normalize(req.doc[p].words[c[1]].text))}

\* the matches of the span pass at a rectangle: (line, pattern, span)
\* triples where the pattern is found in the line and the span is the match
\* or one of its tokens
SpanCands(pats, p, r) ==
  UNION {LET line == req.doc[p].lines[c[1]]
             sd == SpanData(line)
             m == search(pats[c[2]].re, LineText(sd))
             tokens == SplitWs(m)
         IN IF (\A j \in 1..Len(line) : line[j].bbox # r) \/ m = NoMatch
            THEN {}
            ELSE {<<c[1], c[2], j>> : j \in
                    {j \in 1..Len(line) :
                       /\ line[j].bbox = r
                       /\ Len(sd[j].text) > 0
                       /\ (sd[j].text = m
                            \/ \E t \in 1..Len(tokens) : tokens[t] = sd[j].text)}} :
         c \in (1..Len(req.doc[p].lines)) \X (1..Len(pats))}

\* lexicographic order on tuples of numbers of the same length
RECURSIVE LexLess(_, _)
LexLess(a, b) ==
  /\ a # <<>>
  /\ (a[1] < b[1] \/ (a[1] = b[1] /\ LexLess(Tail(a), Tail(b))))

LexMin(S) == CHOOSE a \in S : \A b \in S : a = b \/ LexLess(a, b)

\* the url the first match at a rectangle builds: word pass before span
\* pass, then earlier word or line, then earlier pattern; NoUri without a match
FirstMatchUrl(pats, p, r) ==
  LET wc == WordCands(pats, p, r) IN
  IF wc # {}
  THEN LET c == LexMin(wc) IN
       FullLink(pats[c[2]].url, normalize(req.doc[p].words[c[1]].text),
                req.source, req.medium, req.campaign)
  ELSE LET sc == SpanCands(pats, p, r) IN
       IF sc = {} THEN NoUri
       ELSE LET c == LexMin(sc) IN
            FullLink(pats[c[2]].url, normalize(req.doc[p].lines[c[1]][c[3]].text),
                     req.source, req.medium, req.campaign)

\* the pages whose links the run may just have changed, and every page once
\* the run has gone through the document
PagesInHand ==
  IF Returned THEN 1..PageCount ELSE {page_num - 1, page_num} \cap (1..PageCount)

\* C2: in a links_and_utm run a rectangle of a page holds, at every moment,
\* at most one link inserted by the run, and its target is the one the
\* first match builds (word pass before span pass, earlier pattern before
\* later pattern): no later pattern, pass or token fallback re-links it.
C2_FirstMatchWins ==
  (InRun /\ req.job_type = "links_and_utm") =>
    LET pats == ReqPatterns IN
    \A p \in PagesInHand : \A r \in Rects :
      LET ins == InsertedAt(p, r) IN
      /\ Len(ins) <= 1
      /\ Len(ins) = 1 => ins[1].uri = FirstMatchUrl(pats, p, r)

\* a rectangle two patterns match in the word pass and a third match hits in
\* the span pass has been linked once, and the run is over
C2_Witness ==
  /\ Returned
  /\ req.job_type = "links_and_utm"
  /\ LET pats == ReqPatterns IN
     \E r \in Rects :
       /\ Len(InsertedAt(1, r)) = 1
       /\ SpanCands(pats, 1, r) # {}
       /\ \E c, d \in WordCands(pats, 1, r) : c[2] # d[2]

\* the request of the single-token scenario: one page whose words view and
\* spans view both hold one and the same token at the same rectangle, and
\* exactly one configured pattern fully matches the token
SingleToken ==
  /\ req.job_type = "links_and_utm"
  /\ PageCount = 1
  /\ Len(req.doc[1].words) = 1
  /\ Len(req.doc[1].lines) = 1
  /\ Len(req.doc[1].lines[1]) = 1
  /\ req.doc[1].words[1] = req.doc[1].lines[1][1]
  /\ LET pats == ReqPatterns IN
     Cardinality({k \in 1..Len(pats) :
                    fullmatch(pats[k].re, normalize(req.doc[1].words[1].text))}) = 1

\* the url of the one pattern that matches the token of the scenario
TokenBase ==
  LET pats == ReqPatterns
      k == CHOOSE i \in 1..Len(pats) :
             fullmatch(pats[i].re, normalize(req.doc[1].words[1].text))
  IN pats[k].url

\* exactly one link was created, at the token's rectangle, with this target
OneLinkWith(uri) ==
  /\ Len(calls) = 1
  /\ calls[1].page = 1
  /\ calls[1].from = req.doc[1].words[1].bbox
  /\ calls[1].uri = uri
  /\ Len(InsertedAt(1, req.doc[1].words[1].bbox)) = 1
  /\ InsertedAt(1, req.doc[1].words[1].bbox)[1].uri = uri
  /\ preview_links[1][Len(preview_links[1])].uri = uri
  /\ link_count = 1
  /\ (pc = "done" => response.count = 1)

\* C3 as stated: in the single-token scenario the run creates exactly one
\* link on the token's region, with target base URL + token +
\* "?utm_source=S&utm_medium=M&utm_campaign=C&utm_content=" + token, and
\* reports a link count of 1.
C3_SingleTokenQuestionMark ==
  (Returned /\ SingleToken) =>
    LET token == req.doc[1].words[1].text IN
    OneLinkWith(TokenBase \o token \o <<"?", "utm_source=">> \o req.source
                  \o <<"&", "utm_medium=">> \o req.medium
                  \o <<"&", "utm_campaign=">> \o req.campaign
                  \o <<"&", "utm_content=">> \o token)

\* C3 as amended: the same, with the parameters joined by "?" only when
\* base URL + token holds no "?" and by "&" otherwise, the token taken
\* normalized and the four values percent-encoded.
C3_SingleTokenOneLink ==
  (Returned /\ SingleToken) =>
    LET token == normalize(req.doc[1].words[1].text)
        joiner == IF \E i \in 1..Len(TokenBase \o token) : (TokenBase \o token)[i] = "?"
                  THEN "&" ELSE "?"
    IN OneLinkWith(TokenBase \o token \o <<joiner, "utm_source=">> \o quote(req.source)
                     \o <<"&", "utm_medium=">> \o quote(req.medium)
                     \o <<"&", "utm_campaign=">> \o quote(req.campaign)
                     \o <<"&", "utm_content=">> \o quote(token))

\* the scenario has run to its end on a base URL that holds a query string
\* and with a campaign that needs percent-encoding
C3_Witness ==
  /\ Returned
  /\ SingleToken
  /\ link_count = 1
  /\ \E i \in 1..Len(TokenBase) : TokenBase[i] = "?"
  /\ req.campaign = SFallSale

UtmKeys == <<"utm_source=", "utm_medium=", "utm_campaign=", "utm_content=">>
IsUtmKey(e) == \E k \in 1..4 : UtmKeys[k] = e

\* the url the synthesizer appended the parameters to: the existing target,
\* or the base URL followed by the matched text
SynthUrl == IF syn_out.via = "utm" THEN syn_in.url ELSE syn_in.url \o syn_in.text

\* C5: every target the synthesizer builds is the url followed by "?" when
\* the url holds no "?" yet and by "&" when it does, then the four
\* parameters in the order utm_source, utm_medium, utm_campaign,
\* utm_content with "&" between them; for utm_only (the existing target) as
\* for links_and_utm (base URL + matched text).
C5_UtmAppended ==
  syn_out # NoTarget =>
    LET url == SynthUrl
        uri == syn_out.uri
        n == Len(url)
        tail == SubSeq(uri, n + 2, Len(uri))
    IN /\ Len(uri) > n + 1
       /\ SubSeq(uri, 1, n) = url
       /\ uri[n + 1] = (IF \E j \in 1..n : url[j] = "?" THEN "&" ELSE "?")
       /\ SelectSeq(tail, IsUtmKey) = UtmKeys
       /\ tail[1] = "utm_source="
       /\ \A j \in 2..Len(tail) : IsUtmKey(tail[j]) => tail[j - 1] = "&"
       /\ \A j \in 1..Len(tail) : tail[j] # "?"

\* a target of the links_and_utm kind joined by "&" because the matched text
\* brought the "?"
C5_Witness ==
  /\ syn_out.via = "match"
  /\ syn_in.url = Host("https://x.com") \o <<"/", "a">>
  /\ syn_in.text = <<"7", "?">>
  /\ syn_out.uri[Len(SynthUrl) + 1] = "&"

EndsWith(s, t) == Len(s) >= Len(t) /\ SubSeq(s, Len(s) - Len(t) + 1, Len(s)) = t

\* C6: in a utm_only run utm_content is the last path segment of the
\* original target when the visible text under the link contains white
\* space of any kind (a line break included), and the visible text itself
\* when it contains none.
C6_ContentByWhitespace ==
  InRun =>
    \A i \in 1..Len(calls) :
      calls[i].via = "utm" =>
        LET text == calls[i].text
            expected == IF \E j \in 1..Len(text) : text[j] \in Whitespace
                        THEN extract_last_path_segment(calls[i].src)
                        ELSE text
        IN EndsWith(calls[i].uri, <<"utm_content=">> \o quote(expected))

\* the rewritten link of the scenario: target https://shop.example.com/p/1234,
\* visible text "Buy Now", UTM triple (ig, social, launch)
BuyNowCalls ==
  {i \in 1..Len(calls) :
     /\ calls[i].via = "utm"
     /\ calls[i].src = UShop
     /\ calls[i].text = TBuyNow
     /\ <<req.source, req.medium, req.campaign>> = <<SIg, SSocial, SLaunch>>}

BuyNowSuffix ==
  <<"utm_source=", "i", "g", "&", "utm_medium=", "s", "o", "c", "i", "a", "l", "&",
    "utm_campaign=", "l", "a", "u", "n", "c", "h", "&", "utm_content=", "1", "2", "3", "4">>

\* the link is on the final page with this target
RewrittenTo(i, uri) ==
  /\ calls[i].uri = uri
  /\ \E k \in 1..Len(final_links[calls[i].page]) :
       /\ final_links[calls[i].page][k].from = calls[i].from
       /\ final_links[calls[i].page][k].uri = uri

\* C7 as stated: the new target is the original target followed by
\* "&utm_source=ig&utm_medium=social&utm_campaign=launch&utm_content=1234".
C7_BuyNowAmpersand ==
  InRun => \A i \in BuyNowCalls : RewrittenTo(i, UShop \o <<"&">> \o BuyNowSuffix)

\* C7 as amended: the new target is the original target followed by
\* "?utm_source=ig&utm_medium=social&utm_campaign=launch&utm_content=1234".
C7_BuyNowRewritten ==
  InRun => \A i \in BuyNowCalls : RewrittenTo(i, UShop \o <<"?">> \o BuyNowSuffix)

\* the link of the scenario has been rewritten
C7_Witness == InRun /\ BuyNowCalls # {}

\* C8: a links_and_utm request with a missing or mismatched mapping is
\* answered 400; a fault raised while a page is scanned or a link
\* synthesized is answered 500 whatever its exception type; no error answer
\* carries a document, and a document is returned only after every page.
C8_FaultClasses ==
  pc = "done" =>
    /\ response.error \in {"required", "mismatch", "Format map is required."} =>
         response.status = 400
    /\ response.error = "fault" => response.status = 500
    /\ response.status # 200 => ~response.body
    /\ response.body => page_num > PageCount

\* C9: a second run over the document the first run produced, with the same
\* inputs, puts no link on top of a link of the first run and does not add
\* the regions the first run linked to red_rects and link_count again.
C9_RerunIdempotent ==
  (run > 1 /\ Returned) =>
    /\ \A k \in 1..Len(red_rects) : red_rects[k] \notin prev
    /\ \A p \in 1..PageCount : \A i, j \in 1..Len(final_links[p]) :
         ~(/\ final_links[p][i].from = final_links[p][j].from
           /\ final_links[p][i].orig # 0
           /\ final_links[p][j].orig = 0
           /\ <<p, final_links[p][i].from>> \in prev)

\* how many annotations of a page have this rectangle and target
CountOf(annots, from, uri) ==
  Cardinality({i \in 1..Len(annots) : annots[i].from = from /\ annots[i].uri = uri})

\* C10: after a run of either job type every page of the preview holds
\* exactly the link annotations (rectangle and target) of the same page of
\* the final document; after utm_only no annotation with the original
\* target is left at a rewritten rectangle.
C10_PreviewParallel ==
  Returned =>
    \A p \in 1..PageCount :
      /\ \A i \in 1..Len(final_links[p]) :
           CountOf(preview_links[p], final_links[p][i].from, final_links[p][i].uri)
             = CountOf(final_links[p], final_links[p][i].from, final_links[p][i].uri)
      /\ \A i \in 1..Len(preview_links[p]) :
           CountOf(preview_links[p], preview_links[p][i].from, preview_links[p][i].uri)
             = CountOf(final_links[p], preview_links[p][i].from, preview_links[p][i].uri)

\* how many entries of a log of (page, rect) pairs are this pair
Times(log, p, r) == Cardinality({k \in 1..Len(log) : log[k] = <<p, r>>})

\* the regions of the links this run of the links_and_utm branch installed
LinkedRegions == [k \in 1..Len(calls) |-> <<calls[k].page, calls[k].from>>]

\* C11: in a links_and_utm run every match that installs a link (word pass,
\* span pass or token fallback) adds one to link_count and, exactly when
\* underline is requested, one underline at the matched region of final_pdf;
\* without the request nothing is underlined, and the preview answer carries
\* no underline.
C11_MatchCountsAndUnderlines ==
  (InRun /\ req.job_type = "links_and_utm") =>
    /\ link_count = Len(calls)
    /\ \A p \in 1..PageCount : \A r \in Rects :
         Times(underlines, p, r) = (IF req.underline THEN Times(LinkedRegions, p, r) ELSE 0)
    /\ (pc = "done" /\ response.kind = "preview") => response.underlines = <<>>

\* the places (start, end) of a text where the shape of a pattern occurs
Occurrences(re, s) ==
  {ab \in (1..Len(s)) \X (1..Len(s)) :
     ab[1] <= ab[2] /\ fullmatch(re, SubSeq(s, ab[1], ab[2]))}

\* what a search for the shape alone finds in a text: the occurrence that
\* starts first, taken as long as it goes; NoMatch without an occurrence
FoundShape(re, s) ==
  LET occ == Occurrences(re, s) IN
  IF occ = {} THEN NoMatch
  ELSE LET a == CHOOSE x \in {ab[1] : ab \in occ} : \A ab \in occ : x <= ab[1]
           b == CHOOSE y \in {ab[2] : ab \in occ} :
                  <<a, y>> \in occ /\ \A ab \in occ : ab[1] = a => ab[2] <= y
       IN SubSeq(s, a, b)

\* C12: the span pass searches: when the shape of a pattern occurs inside
\* the text of a line, with or without text around it, the span whose text
\* is the occurrence has a link at the end of the run, and when no span is
\* the whole occurrence every span whose text is one of its
\* whitespace-delimited tokens has one.
C12_SpanPassSearches ==
  (Returned /\ req.job_type = "links_and_utm") =>
    LET pats == ReqPatterns IN
    \A p \in 1..PageCount : \A l \in 1..Len(req.doc[p].lines) : \A k \in 1..Len(pats) :
      LET sd == SpanData(req.doc[p].lines[l])
          m == FoundShape(pats[k].re, LineText(sd))
          tokens == SplitWs(m)
          whole == {j \in 1..Len(sd) : sd[j].text = m}
          parts == {j \in 1..Len(sd) : \E t \in 1..Len(tokens) : tokens[t] = sd[j].text}
      IN m # NoMatch =>
           \A j \in (IF whole # {} THEN whole ELSE parts) :
             Len(InsertedAt(p, sd[j].bbox)) >= 1

\* a word with every en dash, em dash and non-breaking hyphen written as
\* "-" and every non-breaking space as " "
Folded(s) ==
  [i \in 1..Len(s) |->
     IF s[i] \in {"U+2013", "U+2014", "U+2011"} THEN "-"
     ELSE IF s[i] = "U+00A0" THEN " " ELSE s[i]]

\* C13: the normalized word holds none of the four variants, each of them
\* has become "-" (the dashes and the non-breaking hyphen) or " " (the
\* non-breaking space), and a word that matches the format's pattern once
\* its variants are written as "-" and " " matches it after normalize.
C13_NormalizeFolds ==
  norm_out.done =>
    /\ \A i \in 1..Len(norm_out.text) : norm_out.text[i] \notin Variants
    /\ norm_out.text = Strip(Folded(norm_in.text))
    /\ fullmatch(format_pattern_to_regex(norm_in.fmt), Folded(norm_in.text)) => norm_out.hit

=============================================================================
